---- MODULE Spec2Model ----
(***************************************************************************)
(* Model of src/app.py: the parquet/st.cache_data price cache              *)
(* (get_price_data), the batch regression loop (run_regression), the       *)
(* Streamlit workflow that consumes its table (sector and cap-bucket       *)
(* aggregation) and the cap bucket function.                               *)
(*                                                                         *)
(* A DataFrame is [sym, index, cols]: index is the sequence of dates,      *)
(* cols maps each column that is present to its sequence of values, and    *)
(* sym records for which symbol the provider produced the frame (a         *)
(* history tag, the code never reads it).  OLS coefficients are floating   *)
(* point and are not modelled; a result row carries Ticker, Sector,        *)
(* MarketCap and Observations.                                             *)
(***************************************************************************)
EXTENDS Integers, Sequences, FiniteSets, TLC

VARIABLES disk, memo, lastGet, ncalls,
          pc, df_tickers, i, results, warnings, market_return, outcomes,
          benchmark, sector_stats, cap_stats,
          cap, category

cacheVars == <<disk, memo, lastGet, ncalls>>
runVars == <<pc, df_tickers, i, results, warnings, market_return, outcomes,
             benchmark, sector_stats, cap_stats>>
bucketVars == <<cap, category>>
vars == <<disk, memo, lastGet, ncalls,
          pc, df_tickers, i, results, warnings, market_return, outcomes,
          benchmark, sector_stats, cap_stats,
          cap, category>>

----------------------------------------------------------------------------
(* Bounds *)

\* last day of the analysis range (the range is days FirstDay..LastDay)
LastDay == 3
\* longest ticker list that is uploaded
MaxTickers == 3
\* number of direct get_price_data calls explored by SpecCache
MaxCalls == 3
\* half-width of the window of caps explored around each bucket threshold
CapWindow == 30

----------------------------------------------------------------------------
(* Values *)

\* values are rationals <<numerator, denominator>>; NaN is the undefined value
Rat(n, d) == <<n, d>>
NaN == <<0, 0>>
\* Python's None
None == [none |-> TRUE]
\* os.path.exists(fname) is false
NoFile == [nofile |-> TRUE]
\* st.cache_data has no entry for the arguments
NoMemo == [nomemo |-> TRUE]
\* yf.download raises
ProviderRaise == [raises |-> TRUE]
\* the provider is not contacted
NoAnswer == [noanswer |-> TRUE]

ADJ_CLOSE == "Adj Close"
CLOSE == "Close"
Fields == {ADJ_CLOSE, CLOSE}

\* symbols are character sequences, so that str.replace can be computed
BENCHMARK == <<"^", "N", "S", "E", "I">>
SYM_NSEI == <<"N", "S", "E", "I">>
SYM_TCS == <<"T", "C", "S">>
Symbols == {BENCHMARK, SYM_NSEI, SYM_TCS}

FirstDay == 1
\* the range the workflow passes ("2023-01-01", "2024-12-31") and another one
RunRange == <<FirstDay, LastDay>>
OtherRange == <<FirstDay + 1, LastDay + 1>>
Ranges == {RunRange, OtherRange}

Ok(v) == [kind |-> "ok", value |-> v]
Raise(e) == [kind |-> "raise", exc |-> e]

Range(s) == {s[k] : k \in DOMAIN s}

Interval(a, b) == [k \in 1..(b - a + 1) |-> a + k - 1]

----------------------------------------------------------------------------
(* The price provider (yf.download): what it may answer for a symbol and   *)
(* a date range.  The answer is a frame, or the call raises.               *)

ClosePrice(d) == Rat(d + 1, 1)
AdjPrice(d) == Rat(2 * d + 1, 1)

\* the date indexes that an answer for start..end may have
Indexes(start, end) ==
    { << >>,
      Interval(start, end),
      Interval(start, start + 1),
      Interval(end - 1, end),
      <<end>> }

ColumnSets == {{}, {CLOSE}, {ADJ_CLOSE, CLOSE}}

MkFrame(sym, index, columns, defined) ==
    [sym |-> sym,
     index |-> index,
     cols |-> [c \in columns |->
                 [k \in 1..Len(index) |->
                    IF ~defined THEN NaN
                    ELSE IF c = ADJ_CLOSE THEN AdjPrice(index[k])
                    ELSE ClosePrice(index[k])]]]

ProviderFrames(ticker, start, end) ==
    { MkFrame(ticker, ix, cs, TRUE) :
        ix \in Indexes(start, end), cs \in ColumnSets \ {{}} }
    \cup { MkFrame(ticker, << >>, {}, TRUE),
           MkFrame(ticker, Interval(start, end), {CLOSE}, FALSE) }

ProviderOutcomes(ticker, start, end) ==
    ProviderFrames(ticker, start, end) \cup {ProviderRaise}

IsEmptyFrame(df) == Len(df.index) = 0

----------------------------------------------------------------------------
(* get_price_data *)

\* ticker.replace('^', '')
Replace(ticker) == SelectSeq(ticker, LAMBDA c : c # "^")

\* os.path.join(CACHE_FOLDER, f"{...}.parquet")
Fname(ticker) == <<"price_cache">> \o Replace(ticker) \o <<".parquet">>

FileNames == {Fname(t) : t \in Symbols}

\* df.to_parquet: the file holds the schema and one row per date
ToParquet(df) ==
    [sym |-> df.sym,
     schema |-> DOMAIN df.cols,
     rows |-> [k \in 1..Len(df.index) |->
                 [date |-> df.index[k],
                  vals |-> [c \in DOMAIN df.cols |-> df.cols[c][k]]]]]

\* pd.read_parquet
ReadParquet(f) ==
    [sym |-> f.sym,
     index |-> [k \in 1..Len(f.rows) |-> f.rows[k].date],
     cols |-> [c \in f.schema |-> [k \in 1..Len(f.rows) |-> f.rows[k].vals[c]]]]

\* get_price_data without the os.path.exists test: every call that the memo
\* does not answer downloads and overwrites the file
get_price_data_refetch(ticker, start, end, answer, d, m) ==
    LET key == <<ticker, start, end>>
        fname == Fname(ticker)
        fresh == IF answer = NoAnswer
                 THEN MkFrame(ticker, Interval(start, end), {CLOSE}, TRUE)
                 ELSE answer
    IN IF m[key] # NoMemo
       THEN [ret |-> Ok(m[key]), disk |-> d, memo |-> m, source |-> "memo"]
       ELSE IF fresh = ProviderRaise
       THEN [ret |-> Raise("DownloadError"), disk |-> d, memo |-> m,
             source |-> "provider"]
       ELSE [ret |-> Ok(fresh),
             disk |-> [d EXCEPT ![fname] = ToParquet(fresh)],
             memo |-> [m EXCEPT ![key] = fresh], source |-> "provider"]

\* The call get_price_data(ticker, start, end) on disk d and memo m, when the
\* provider would answer `answer`.  st.cache_data returns the memoized value
\* for arguments it has seen in this process; an exception is not memoized.
get_price_data(ticker, start, end, answer, d, m) ==
    LET key == <<ticker, start, end>>
        fname == Fname(ticker)
    IN IF m[key] # NoMemo
       THEN [ret |-> Ok(m[key]), disk |-> d, memo |-> m, source |-> "memo"]
       ELSE IF d[fname] # NoFile
       THEN LET df == ReadParquet(d[fname])
            IN [ret |-> Ok(df), disk |-> d,
                memo |-> [m EXCEPT ![key] = df], source |-> "disk"]
       ELSE IF answer = ProviderRaise
       THEN [ret |-> Raise("DownloadError"), disk |-> d, memo |-> m,
             source |-> "provider"]
       ELSE [ret |-> Ok(answer),
             disk |-> [d EXCEPT ![fname] = ToParquet(answer)],
             memo |-> [m EXCEPT ![key] = answer], source |-> "provider"]

----------------------------------------------------------------------------
(* run_regression: the pandas operations it uses.  A Series is a sequence  *)
(* of <<date, value>> pairs in date order.                                 *)

\* DataFrame.get(column): the column as a Series, or None when it is absent
DfGet(df, column) ==
    IF column \in DOMAIN df.cols
    THEN [name |-> column,
          data |-> [k \in 1..Len(df.index) |-> <<df.index[k], df.cols[column][k]>>]]
    ELSE None

\* Python's `a or b` for operands that are a Series or None: None is falsy and
\* yields b untested; bool(Series) raises ValueError (truth value ambiguous)
PyOr(a, b) == IF a = None THEN Ok(b) ELSE Raise("ValueError")

\* df.get("Adj Close") or df.get("Close")
SelectPrice(df) == PyOr(DfGet(df, ADJ_CLOSE), DfGet(df, CLOSE))

\* Series.dropna()
DropNa(s) == SelectSeq(s, LAMBDA p : p[2] # NaN)

\* Series.pct_change(): s[k]/s[k-1] - 1, undefined at the first position.
\* (pandas' forward fill before the division changes nothing on the series
\* of this model, which are free of NaN or all NaN.)
PctChange(s) ==
    [k \in 1..Len(s) |->
        IF k = 1 \/ s[k][2] = NaN \/ s[k - 1][2] = NaN
        THEN <<s[k][1], NaN>>
        ELSE <<s[k][1],
               Rat(s[k][2][1] * s[k - 1][2][2] - s[k - 1][2][1] * s[k][2][2],
                   s[k - 1][2][1] * s[k][2][2])>>]

Dates(s) == {s[k][1] : k \in DOMAIN s}

ValueAt(s, d) == (CHOOSE p \in Range(s) : p[1] = d)[2]

\* pd.concat([a, b], axis=1, join="inner").dropna(): rows <<date, a, b>> for
\* the dates of both, without the rows that hold an undefined value
ConcatInner(a, b) ==
    LET common == SelectSeq(a, LAMBDA p : p[1] \in Dates(b))
        rows == [k \in 1..Len(common) |->
                   <<common[k][1], common[k][2], ValueAt(b, common[k][1])>>]
    IN SelectSeq(rows, LAMBDA r : r[2] # NaN /\ r[3] # NaN)

\* the dict appended to results (lines 60-70) without the fitted coefficients
MakeRow(row, df) ==
    [Ticker |-> row.symbol, Sector |-> row.sector, MarketCap |-> row.market_cap,
     Observations |-> Len(df)]

\* lines 38-40: the benchmark's return series, or the exception that leaves
\* run_regression (nothing catches it)
MarketReturn(g) ==
    IF g.ret.kind = "raise"
    THEN [kind |-> "raise", exc |-> g.ret.exc, field |-> "none"]
    ELSE LET sel == SelectPrice(g.ret.value)
         IN IF sel.kind = "raise"
            THEN [kind |-> "raise", exc |-> sel.exc, field |-> "none"]
            ELSE IF sel.value = None
            THEN [kind |-> "raise", exc |-> "AttributeError", field |-> "none"]
            ELSE [kind |-> "ok", field |-> sel.value.name,
                  value |-> DropNa(PctChange(sel.value.data))]

\* lines 45-70: the body of the try block for one row of df_tickers, given the
\* result g of its get_price_data call: an exception, a `continue`, or a row
TryBody(row, g, mret) ==
    IF g.ret.kind = "raise" THEN [kind |-> "raise", exc |-> g.ret.exc, field |-> "none"]
    ELSE LET sel == SelectPrice(g.ret.value)
         IN IF sel.kind = "raise"
            THEN [kind |-> "raise", exc |-> sel.exc, field |-> "none"]
            ELSE IF sel.value = None
            THEN [kind |-> "raise", exc |-> "AttributeError", field |-> "none"]
            ELSE LET price == sel.value.data
                     stock_return == DropNa(PctChange(price))
                     df == ConcatInner(stock_return, mret)
                 IN IF DropNa(price) = << >>
                    THEN [kind |-> "continue", field |-> sel.value.name]
                    ELSE IF df = << >>
                    THEN [kind |-> "continue", field |-> sel.value.name]
                    ELSE [kind |-> "row", field |-> sel.value.name,
                          row |-> MakeRow(row, df)]

\* results.insert(0, ...) in place of results.append(...)
AppendRow_prepend(res, r) == <<r>> \o res

\* line 60: results.append(...)
AppendRow(res, r) == Append(res, r)

\* an except clause that warns and then gives up the run
ExceptClause_abort(ticker, exc, w) ==
    [warnings |-> Append(w, [ticker |-> ticker, exc |-> exc]), pc |-> "aborted"]

\* lines 72-73: the except clause: a warning naming the ticker, then the
\* loop goes on
ExceptClause(ticker, exc, w) ==
    [warnings |-> Append(w, [ticker |-> ticker, exc |-> exc]), pc |-> "loop"]

----------------------------------------------------------------------------
(* The workflow's aggregation *)

LARGE_CAP_MIN == 1000000
MID_CAP_MIN == 200000

\* bucket with the lower bounds exclusive
bucket_exclusive(c) ==
    IF c > LARGE_CAP_MIN THEN "Large Cap"
    ELSE IF c > MID_CAP_MIN THEN "Mid Cap"
    ELSE "Small Cap"

\* lines 112-118
bucket(c) ==
    IF c >= LARGE_CAP_MIN THEN "Large Cap"
    ELSE IF c >= MID_CAP_MIN THEN "Mid Cap"
    ELSE "Small Cap"

\* df_results.groupby(key).agg({..., "Ticker": "count"}): the groups present
\* and their Stock_Count; KeyError when the table has no such column, which
\* is the case of pd.DataFrame([])
GroupCount(table, key) ==
    IF table = << >> THEN Raise("KeyError")
    ELSE Ok([g \in {table[k][key] : k \in DOMAIN table} |->
               Cardinality({k \in DOMAIN table : table[k][key] = g})])

\* line 120: df_results["Cap_Category"] = df_results["MarketCap"].apply(bucket)
AddCapCategory(table) ==
    IF table = << >> THEN Raise("KeyError")
    ELSE Ok([k \in DOMAIN table |->
               [Ticker |-> table[k].Ticker, Sector |-> table[k].Sector,
                MarketCap |-> table[k].MarketCap,
                Observations |-> table[k].Observations,
                Cap_Category |-> bucket(table[k].MarketCap)]])

----------------------------------------------------------------------------
(* Inputs of the workflow *)

TickerRecords ==
    { [symbol |-> SYM_TCS, sector |-> "IT", market_cap |-> 1000000],
      [symbol |-> SYM_NSEI, sector |-> "Index", market_cap |-> 199999],
      [symbol |-> SYM_TCS, sector |-> "Bank", market_cap |-> 200000] }

TickerLists == UNION {[1..n -> TickerRecords] : n \in 0..MaxTickers}

Caps ==
    {0} \cup ((MID_CAP_MIN - CapWindow)..(MID_CAP_MIN + CapWindow))
        \cup ((LARGE_CAP_MIN - CapWindow)..(LARGE_CAP_MIN + CapWindow))

NoCall == [called |-> FALSE]

MemoKeys == {<<t, r[1], r[2]>> : t \in Symbols, r \in Ranges}

\* the provider is contacted only when neither the memo nor the disk answers
Misses(ticker, start, end, d, m) ==
    m[<<ticker, start, end>>] = NoMemo /\ d[Fname(ticker)] = NoFile

Answers(ticker, start, end, d, m) ==
    IF Misses(ticker, start, end, d, m)
    THEN ProviderOutcomes(ticker, start, end)
    ELSE {NoAnswer}

\* the state before the first upload: empty cache folder (lines 19-20), empty
\* memo, no run started, bucket not applied
Init ==
    /\ disk = [f \in FileNames |-> NoFile]
    /\ memo = [k \in MemoKeys |-> NoMemo]
    /\ lastGet = NoCall
    /\ ncalls = 0
    /\ pc = "idle"
    /\ df_tickers = << >>
    /\ i = 0
    /\ results = << >>
    /\ warnings = << >>
    /\ market_return = << >>
    /\ outcomes = << >>
    /\ benchmark = [called |-> FALSE]
    /\ sector_stats = << >>
    /\ cap_stats = << >>
    /\ cap = 0
    /\ category = ""

----------------------------------------------------------------------------
(* SpecCache: direct calls of get_price_data, for any symbol and range,    *)
(* and restarts of the server process (the memo is lost, the disk stays).  *)

Get(ticker, start, end) ==
    /\ ncalls < MaxCalls
    /\ \E answer \in Answers(ticker, start, end, disk, memo) :
         LET g == get_price_data(ticker, start, end, answer, disk, memo)
         IN /\ disk' = g.disk
            /\ memo' = g.memo
            /\ lastGet' = [called |-> TRUE, ticker |-> ticker, start |-> start,
                           end |-> end, source |-> g.source, answer |-> answer,
                           ret |-> g.ret]
    /\ ncalls' = ncalls + 1
    /\ UNCHANGED <<runVars, bucketVars>>

Restart ==
    /\ memo # [k \in MemoKeys |-> NoMemo]
    /\ memo' = [k \in MemoKeys |-> NoMemo]
    /\ UNCHANGED <<disk, lastGet, ncalls, runVars, bucketVars>>

NextCache ==
    \/ \E t \in Symbols, r \in Ranges : Get(t, r[1], r[2])
    \/ Restart

SpecCache == Init /\ [][NextCache]_vars

----------------------------------------------------------------------------
(* SpecRun: the Streamlit workflow, run after run.  The script reruns on   *)
(* every upload; the memo lives as long as the server process, the disk    *)
(* cache outlives it.                                                      *)

NoBenchmark == [called |-> FALSE]

\* lines 79-82: the uploaded CSV is read and its columns are checked
Upload(list, hasColumns) ==
    /\ pc = "idle"
    /\ df_tickers' = list
    /\ pc' = IF hasColumns THEN "run" ELSE "input_error"
    /\ UNCHANGED <<cacheVars, i, results, warnings, market_return, outcomes,
                   benchmark, sector_stats, cap_stats, bucketVars>>

\* lines 36-40: results = [], the benchmark is fetched and its returns taken
RunStart ==
    /\ pc = "run"
    /\ \E answer \in Answers(BENCHMARK, RunRange[1], RunRange[2], disk, memo) :
         LET g == get_price_data(BENCHMARK, RunRange[1], RunRange[2], answer, disk, memo)
             mr == MarketReturn(g)
         IN /\ disk' = g.disk
            /\ memo' = g.memo
            /\ benchmark' = [called |-> TRUE, ret |-> g.ret, source |-> g.source,
                             field |-> mr.field]
            /\ IF mr.kind = "raise"
               THEN /\ pc' = "aborted"
                    /\ UNCHANGED market_return
               ELSE /\ pc' = "loop"
                    /\ market_return' = mr.value
    /\ results' = << >>
    /\ i' = 1
    /\ UNCHANGED <<lastGet, ncalls, df_tickers, warnings, outcomes,
                   sector_stats, cap_stats, bucketVars>>

\* lines 42-73: one iteration of the loop over df_tickers
ProcessTicker ==
    /\ pc = "loop"
    /\ i <= Len(df_tickers)
    /\ LET row == df_tickers[i]
           ticker == row.symbol
       IN \E answer \in Answers(ticker, RunRange[1], RunRange[2], disk, memo) :
            LET g == get_price_data(ticker, RunRange[1], RunRange[2], answer, disk, memo)
                t == TryBody(row, g, market_return)
            IN /\ disk' = g.disk
               /\ memo' = g.memo
               /\ outcomes' = Append(outcomes,
                     [ticker |-> ticker, ret |-> g.ret, source |-> g.source,
                      kind |-> t.kind, field |-> t.field])
               /\ IF t.kind = "raise"
                  THEN LET h == ExceptClause(ticker, t.exc, warnings)
                       IN /\ warnings' = h.warnings
                          /\ pc' = h.pc
                          /\ UNCHANGED results
                  ELSE IF t.kind = "row"
                  THEN /\ results' = AppendRow(results, t.row)
                       /\ UNCHANGED <<warnings, pc>>
                  ELSE UNCHANGED <<results, warnings, pc>>
    /\ i' = i + 1
    /\ UNCHANGED <<lastGet, ncalls, df_tickers, market_return, benchmark,
                   sector_stats, cap_stats, bucketVars>>

\* lines 75 and 87-91: the table is returned, st.success and the table shown
ReturnResults ==
    /\ pc = "loop"
    /\ i > Len(df_tickers)
    /\ pc' = "success"
    /\ UNCHANGED <<cacheVars, df_tickers, i, results, warnings, market_return,
                   outcomes, benchmark, sector_stats, cap_stats, bucketVars>>

\* lines 96-99: sector aggregation; an exception ends the script run
SectorStats ==
    /\ pc = "success"
    /\ LET s == GroupCount(results, "Sector")
       IN IF s.kind = "raise"
          THEN /\ pc' = "crashed"
               /\ UNCHANGED sector_stats
          ELSE /\ pc' = "sector"
               /\ sector_stats' = s.value
    /\ UNCHANGED <<cacheVars, df_tickers, i, results, warnings, market_return,
                   outcomes, benchmark, cap_stats, bucketVars>>

\* lines 120-125: cap categories and their aggregation
CapStats ==
    /\ pc = "sector"
    /\ LET c == AddCapCategory(results)
       IN IF c.kind = "raise"
          THEN /\ pc' = "crashed"
               /\ UNCHANGED <<results, cap_stats>>
          ELSE /\ results' = c.value
               /\ pc' = "done"
               /\ cap_stats' = GroupCount(c.value, "Cap_Category").value
    /\ UNCHANGED <<cacheVars, df_tickers, i, warnings, market_return,
                   outcomes, benchmark, sector_stats, bucketVars>>

\* the script run is over; the next upload starts a new one
Rerun ==
    /\ pc \in {"input_error", "aborted", "crashed", "done"}
    /\ pc' = "idle"
    /\ df_tickers' = << >>
    /\ i' = 0
    /\ results' = << >>
    /\ warnings' = << >>
    /\ market_return' = << >>
    /\ outcomes' = << >>
    /\ benchmark' = NoBenchmark
    /\ sector_stats' = << >>
    /\ cap_stats' = << >>
    /\ UNCHANGED <<cacheVars, bucketVars>>

\* the server process is restarted between two script runs
RestartServer ==
    /\ pc = "idle"
    /\ Restart

NextRun ==
    \/ \E list \in TickerLists, hasColumns \in BOOLEAN : Upload(list, hasColumns)
    \/ RunStart
    \/ ProcessTicker
    \/ ReturnResults
    \/ SectorStats
    \/ CapStats
    \/ Rerun
    \/ RestartServer

SpecRun == Init /\ [][NextRun]_vars

----------------------------------------------------------------------------
(* SpecBucket: the cap bucket function applied to caps around its          *)
(* thresholds.                                                             *)

ApplyBucket(c) ==
    /\ cap' = c
    /\ category' = bucket(c)
    /\ UNCHANGED <<cacheVars, runVars>>

NextBucket == \E c \in Caps : ApplyBucket(c)

SpecBucket == Init /\ [][NextBucket]_vars

----------------------------------------------------------------------------
(* Claims about the price cache, checked under SpecCache *)

\* the file of symbol t holds a series that a get for t itself stored
StoredBy(t, d) == d[Fname(t)] # NoFile /\ d[Fname(t)].sym = t

\* a step that is a call get_price_data(t, ...)
IsGetOf(t) == ncalls' = ncalls + 1 /\ lastGet'.ticker = t

\* C1: once a get for a symbol has stored a series, every later get for that
\* symbol, for any range and after any restart, returns exactly the stored
\* series, leaves the store alone and does not contact the provider; the
\* provider is contacted only when the symbol's file does not exist.
C1_Memoization ==
    [][\A t \in Symbols :
          /\ (StoredBy(t, disk) /\ IsGetOf(t)) =>
                /\ lastGet'.ret = Ok(ReadParquet(disk[Fname(t)]))
                /\ lastGet'.source # "provider"
                /\ disk' = disk
          /\ (IsGetOf(t) /\ lastGet'.source = "provider") =>
                /\ disk[Fname(t)] = NoFile
                /\ memo[<<t, lastGet'.start, lastGet'.end>>] = NoMemo
      ]_vars

\* a get for the other range, after a restart, is served from the file that a
\* get of the same symbol stored for the run's range
C1_Witness ==
    /\ lastGet.called
    /\ lastGet.source = "disk"
    /\ StoredBy(lastGet.ticker, disk)
    /\ <<lastGet.start, lastGet.end>> = OtherRange
    /\ lastGet.ret.value.index = Interval(RunRange[1], RunRange[2])

\* C5: on a cache miss get fails when the provider returns an empty result
\* and when the provider call itself fails; it never returns a series as if
\* the fetch had succeeded.
C5_MissFailsWithoutData ==
    (lastGet.called /\ lastGet.source = "provider") =>
        ((lastGet.answer = ProviderRaise \/ IsEmptyFrame(lastGet.answer))
            => lastGet.ret.kind = "raise")

\* C10: a get for symbol A never returns a series that the provider supplied
\* for another symbol B, whether it comes from the provider, the disk or the
\* memo (so a fetch for B never lets a get for A skip the provider).
C10_SeparateEntries ==
    (lastGet.called /\ lastGet.ret.kind = "ok") =>
        lastGet.ret.value.sym = lastGet.ticker

----------------------------------------------------------------------------
(* Claims about run_regression and the workflow, checked under SpecRun *)

RECURSIVE IsSubseq(_, _)
IsSubseq(a, b) ==
    IF a = << >> THEN TRUE
    ELSE IF b = << >> THEN FALSE
    ELSE IF Head(a) = Head(b) THEN IsSubseq(Tail(a), Tail(b))
    ELSE IsSubseq(a, Tail(b))

TickersOf(s) == [k \in 1..Len(s) |-> s[k].ticker]
OutcomesOfKind(kind) == SelectSeq(outcomes, LAMBDA o : o.kind = kind)
Completed == pc \in {"success", "sector", "done", "crashed"}

\* C2: a failure while one ticker is processed produces exactly one warning
\* naming that ticker and no result row, and never stops the loop: every
\* ticker of the list is processed before the table is returned.  With three
\* tickers of which only the second fails, in its fetch, the run returns
\* the rows of tickers 1 and 3 and one warning.
C2_FailureIsolation ==
    /\ \A k \in DOMAIN outcomes : outcomes[k].ticker = df_tickers[k].symbol
    /\ TickersOf(warnings) = TickersOf(OutcomesOfKind("raise"))
    /\ [k \in 1..Len(results) |-> results[k].Ticker] = TickersOf(OutcomesOfKind("row"))
    /\ pc = "loop" => Len(outcomes) = i - 1
    /\ Completed => Len(outcomes) = Len(df_tickers)
    /\ pc = "aborted" => outcomes = << >>
    /\ (/\ Completed
        /\ Len(df_tickers) = 3
        /\ outcomes[1].kind = "row"
        /\ outcomes[2].kind = "raise" /\ outcomes[2].ret.kind = "raise"
        /\ outcomes[3].kind = "row")
       => /\ Len(results) = 2
          /\ results[1].Ticker = df_tickers[1].symbol
          /\ results[2].Ticker = df_tickers[3].symbol
          /\ Len(warnings) = 1
          /\ warnings[1].ticker = df_tickers[2].symbol

\* three tickers, the second raises in its fetch, the run returns two rows
C2_Witness ==
    /\ pc = "success"
    /\ Len(df_tickers) = 3
    /\ outcomes[1].kind = "row"
    /\ outcomes[2].kind = "raise" /\ outcomes[2].ret.kind = "raise"
    /\ outcomes[3].kind = "row"
    /\ Len(results) = 2
    /\ Len(warnings) = 1

BenchmarkUnobtainable ==
    /\ benchmark.called
    /\ benchmark.ret.kind = "raise" \/ IsEmptyFrame(benchmark.ret.value)

\* C3: when the benchmark series cannot be obtained (the provider fails or
\* has no data for it) the run aborts at once; it never goes on to return a
\* table in which every ticker was skipped.
C3_BenchmarkFailureAborts ==
    BenchmarkUnobtainable =>
        /\ pc = "aborted"
        /\ ~(Completed /\ results = << >>)

\* C4: a run in which every ticker is skipped or fails completes without
\* error: the steps that consume its empty table do not raise.
C4_AllSkippedRunCompletes ==
    (Len(df_tickers) >= 1 /\ results = << >>) => pc # "crashed"

\* the price field that the selection policy asks for
PreferredField(df) == IF ADJ_CLOSE \in DOMAIN df.cols THEN ADJ_CLOSE ELSE CLOSE

HasPriceField(ret) == ret.kind = "ok" /\ DOMAIN ret.value.cols # {}

\* a fetched frame with no usable price point, with an empty return series,
\* or whose returns share no date with the benchmark's returns
EmptyData(ret) ==
    /\ HasPriceField(ret)
    /\ LET price == DfGet(ret.value, PreferredField(ret.value)).data
           rets == DropNa(PctChange(price))
       IN \/ DropNa(price) = << >>
          \/ rets = << >>
          \/ Dates(rets) \cap Dates(market_return) = {}

\* C6: a ticker with no usable price point, an empty return series or no
\* date in common with the benchmark is skipped silently: no exception, no
\* warning, no row.
C6_EmptyDataSkipSilent ==
    /\ \A k \in DOMAIN outcomes :
          EmptyData(outcomes[k].ret) => outcomes[k].kind = "continue"
    /\ (\A k \in DOMAIN outcomes : EmptyData(outcomes[k].ret)) => warnings = << >>

\* C7: for the benchmark and for every ticker the series used is the adjusted
\* close whenever that field is present and the raw close otherwise, and the
\* selection does not fail when one of the two is present.
C7_PriceFieldSelection ==
    /\ (benchmark.called /\ HasPriceField(benchmark.ret)) =>
          benchmark.field = PreferredField(benchmark.ret.value)
    /\ \A k \in DOMAIN outcomes :
          HasPriceField(outcomes[k].ret) =>
              outcomes[k].field = PreferredField(outcomes[k].ret.value)

RowKey(r) == <<r.Ticker, r.Sector, r.MarketCap>>
RecordKey(r) == <<r.symbol, r.sector, r.market_cap>>

\* C8: the result rows are a subsequence of the ticker list in input order,
\* each row carrying the symbol, sector and market_cap of its own record.
C8_OutputOrder ==
    /\ IsSubseq([k \in 1..Len(results) |-> RowKey(results[k])],
                [k \in 1..Len(df_tickers) |-> RecordKey(df_tickers[k])])
    /\ Len(results) <= Len(outcomes)

\* two rows of different records were returned and one ticker was left out
C8_Witness ==
    /\ pc = "success"
    /\ Len(results) = 2
    /\ Len(df_tickers) = 3
    /\ RowKey(results[1]) # RowKey(results[2])
    /\ outcomes[2].kind # "row"

----------------------------------------------------------------------------
(* Claim about the bucket function, checked under SpecBucket *)

\* C9: bucket gives exactly one of three labels, lower bounds inclusive:
\* Large Cap from 1,000,000, Mid Cap from 200,000 to 999,999, Small Cap below.
C9_Bucket ==
    category # "" =>
        /\ category \in {"Large Cap", "Mid Cap", "Small Cap"}
        /\ cap >= 1000000 => category = "Large Cap"
        /\ (200000 <= cap /\ cap < 1000000) => category = "Mid Cap"
        /\ cap < 200000 => category = "Small Cap"
        /\ cap = 1000000 => category = "Large Cap"
        /\ cap = 999999 => category = "Mid Cap"
        /\ cap = 200000 => category = "Mid Cap"
        /\ cap = 199999 => category = "Small Cap"

\* the lower bound of Mid Cap itself was bucketed
C9_Witness == cap = 200000 /\ category = "Mid Cap"

====
